---- MODULE Spec2Model ----
(***************************************************************************)
(* A model of Vehmloewff/jsonrpc: the websocket JSON-RPC server            *)
(* (src/server.ts), the client (src/unnamed/part_000, client.ts), the      *)
(* handshake encoder (src/utils.ts, src/unnamed/part_001, shared.ts).      *)
(*                                                                         *)
(* JavaScript values are written as their JSON text ("0", "1", "null");    *)
(* Undefined marks a field that is absent (JSON.stringify drops a field    *)
(* whose value is undefined, so "absent" and "undefined" are the same on   *)
(* the wire).  Method names are sequences of characters, so that the       *)
(* trailing colon is something the model computes.                         *)
(***************************************************************************)
EXTENDS Integers, Sequences, FiniteSets, TLC

\* ------------------------------------------------------------------ bounds
\* request elements the server receives in one run, over all its frames, and emit
\* calls the emitter handlers make in one run, over all their invocations
MaxElems == 1       \* elements under Spec
MaxBatch == 2       \* elements under SpecBatch
MaxCalls == 1       \* emit calls under Spec and SpecBatch
MaxEmit == 2        \* emit calls under SpecLink
MaxOps == 3         \* operations the application calls on the client's connection
MaxWs == 2          \* WebSockets the client creates
MaxIn == 1          \* frames the client receives
MaxFrames == 2      \* frames the server receives under SpecConns
MaxSubs == 2        \* calls and subscriptions under SpecInbox
MaxMsgs == 2        \* frames the client receives under SpecInbox

\* ------------------------------------------------------------- JS values
Undefined == "undefined"
Null == "null"

\* what a method handler may return and an emitter may emit
Values == {"0", "1"}

\* ErrorResponse {code, message}; NoError is the absent error field
NoError == [code |-> 0, message |-> Undefined]
ParseError == [code |-> -32700, message |-> "Parse error"]
InvalidRequest == [code |-> -32600, message |-> "Invalid Request"]
MethodNotFound == [code |-> -32601, message |-> "Method not found"]
EmitterNotFound == [code |-> -32601, message |-> "Emitter not found"]
HookError == [code |-> 401, message |-> "rejected"]

\* a Response object as handleRequest builds it (jsonrpc is stamped by send)
Response(id, result, error) ==
    [id |-> id, result |-> result, error |-> error, jsonrpc |-> Undefined]

\* ---------------------------------------------------------------- utils.ts
\* makeArray: a JSON value that is an array is kept, anything else is wrapped
\* (a JSON value is [kind, items]: kind "arr" with its elements, or kind "obj" with
\* the one value itself)
makeArray(val) == IF val.kind = "arr" THEN val.items ELSE <<val.items[1]>>

\* ------------------------------------------------- the server's registries
\* app.method(name, ...) registrations of the application
methods == {<<"m">>}

\* app.emitter(name, ...) registers name + ':'
emitter(name) == Append(name, ":")
emitters == {emitter(<<"e">>)}

endsWith(str, ch) == Len(str) > 0 /\ str[Len(str)] = ch

\* ------------------------------------------------------------ input frames
Conns == {1, 2}
Ids == {"a", "b"}
MethodNames == {<<"m">>, <<"x">>, <<"e", ":">>, <<"x", ":">>}

\* a decoded JSON element of a frame
Elem(type, tag, mtype, method, id) ==
    [type |-> type, jsonrpc |-> tag, methodType |-> mtype, method |-> method,
     id |-> id, params |-> Null]

ValidElems == {Elem("object", "2.0", "string", m, i) : m \in MethodNames, i \in Ids \cup {Undefined}}
InvalidElems == {Elem("number", Undefined, Undefined, <<>>, Undefined),
                 Elem("null", Undefined, Undefined, <<>>, Undefined),
                 Elem("object", "1.0", "string", <<"m">>, "a"),
                 Elem("object", "2.0", Undefined, <<>>, "a")}
Elems == ValidElems \cup InvalidElems

\* the parsed marker 'invalid'
Invalid == Elem("invalid", Undefined, Undefined, <<>>, Undefined)

\* a text frame: not JSON at all, one JSON value, or a JSON array
Garbage == [kind |-> "garbage", items |-> <<>>]
Bare(e) == [kind |-> "obj", items |-> <<e>>]
Batch(es) == [kind |-> "arr", items |-> es]

RECURSIVE SeqsUpTo(_, _)
SeqsUpTo(S, n) ==
    IF n = 0 THEN {<<>>}
    ELSE LET shorter == SeqsUpTo(S, n - 1)
         IN shorter \cup {Append(s, x) : s \in {t \in shorter : Len(t) = n - 1}, x \in S}

FramesOf(n) ==
    {Garbage} \cup {Bare(e) : e \in Elems} \cup {Batch(es) : es \in SeqsUpTo(Elems, n)}

FrameSize(f) == IF f.kind = "arr" THEN Len(f.items) ELSE IF f.kind = "obj" THEN 1 ELSE 0

\* ---------------------------------------------------------------- state
VARIABLES
    socks,      \* Map<string, WebSocket>: client id -> connection, 0 when absent
    sockState,  \* per transport connection: "idle", "open", "closed"
    clientId,   \* createConnection's local clientId of each connection
    wire,       \* per connection: the sock.send calls made on it, in order
    tasks,      \* the handleRequest invocations, in order of start
    emits       \* the emitter handler invocations, in order of start

svars == <<socks, sockState, clientId, wire, tasks, emits>>

HookIds == {"p"}
Uuid(c) == IF c = 1 THEN "u1" ELSE IF c = 2 THEN "u2" ELSE "u3"
ClientIds == HookIds \cup {Uuid(c) : c \in Conns}

\* ------------------------------------------------------------- server.ts
\* parseRequest: [ok |-> FALSE] is 'parse-error'
parseRequest(json) ==
    IF json.kind = "garbage" THEN [ok |-> FALSE, reqs |-> <<>>]
    ELSE LET arr == makeArray(json)
             check(obj) ==
                 IF obj.type # "object" THEN Invalid
                 ELSE IF obj.jsonrpc # "2.0" THEN Invalid
                 ELSE IF obj.methodType # "string" THEN Invalid
                 ELSE obj
             res == [i \in 1..Len(arr) |-> check(arr[i])]
         IN IF Len(res) = 0 THEN [ok |-> TRUE, reqs |-> <<Invalid>>]
            ELSE [ok |-> TRUE, reqs |-> res]

\* one sock.send call: the frame written, and (bookkeeping) the handleRequest
\* invocation and the batch elements it answers
Sent(kind, items, task, els, via) ==
    [kind |-> kind, items |-> items, task |-> task, els |-> els, via |-> via]

Stamp(messages) == [i \in 1..Len(messages) |-> [messages[i] EXCEPT !.jsonrpc = "2.0"]]

\* send's frame for makeArray(message) = messages: one message goes out bare,
\* any other number of messages as one array
sendFrame(messages, task, els, via) ==
    IF Len(messages) = 1 THEN Sent("obj", Stamp(messages), task, els, via)
    ELSE Sent("arr", Stamp(messages), task, els, via)

\* the socket is open from acceptWebSocket until it is closed
IsOpen(sock) == sockState[sock] \in {"hook", "open"}

\* (mutant) the frame is written to every open socket
sendBroadcast(sock, messages, task, els, via) ==
    [c \in Conns |-> IF IsOpen(c) THEN Append(wire[c], sendFrame(messages, task, els, via))
                     ELSE wire[c]]

\* send(sock, message): the wire after it; sock.send on a closed socket writes nothing
send(sock, messages, task, els, via) ==
    IF IsOpen(sock)
    THEN [wire EXCEPT ![sock] = Append(@, sendFrame(messages, task, els, via))]
    ELSE wire

\* ---- createConnection
\* acceptWebSocket: the upgrade is done, the identity hook is running
Upgrade(c) ==
    /\ sockState[c] = "idle"
    /\ sockState' = [sockState EXCEPT ![c] = "hook"]
    /\ UNCHANGED <<socks, clientId, wire, tasks, emits>>

\* (mutant) the rejected connection is entered in the table all the same
ClientAddedRegistersRejected(c, r) ==
    /\ sockState[c] = "hook"
    /\ IF r = "error"
       THEN /\ wire' = send(c, <<Response(Null, Undefined, HookError)>>, 0, <<>>, "hook")
            /\ sockState' = [sockState EXCEPT ![c] = "closed"]
            /\ socks' = [socks EXCEPT ![Uuid(c)] = c]
            /\ UNCHANGED clientId
       ELSE LET id == IF r = Null THEN Uuid(c) ELSE r
            IN /\ socks' = [socks EXCEPT ![id] = c]
               /\ clientId' = [clientId EXCEPT ![c] = id]
               /\ sockState' = [sockState EXCEPT ![c] = "open"]
               /\ UNCHANGED wire
    /\ UNCHANGED <<tasks, emits>>

\* options.clientAdded returned r: a string, null (a uuid is generated) or {error}
ClientAdded(c, r) ==
    /\ sockState[c] = "hook"
    /\ IF r = "error"
       THEN /\ wire' = send(c, <<Response(Null, Undefined, HookError)>>, 0, <<>>, "hook")
            /\ sockState' = [sockState EXCEPT ![c] = "closed"]
            /\ UNCHANGED <<socks, clientId>>
       ELSE LET id == IF r = Null THEN Uuid(c) ELSE r
            IN /\ socks' = [socks EXCEPT ![id] = c]
               /\ clientId' = [clientId EXCEPT ![c] = id]
               /\ sockState' = [sockState EXCEPT ![c] = "open"]
               /\ UNCHANGED wire
    /\ UNCHANGED <<tasks, emits>>

\* a close frame arrives: isWebSocketCloseEvent
CloseEvent(c) ==
    /\ sockState[c] = "open"
    /\ socks' = [socks EXCEPT ![clientId[c]] = 0]
    /\ sockState' = [sockState EXCEPT ![c] = "closed"]
    /\ UNCHANGED <<clientId, wire, tasks, emits>>

\* the transport fails, or the 24 hour timer closes the socket: the receive
\* loop ends without a close event
TransportLost(c) ==
    /\ sockState[c] = "open"
    /\ sockState' = [sockState EXCEPT ![c] = "closed"]
    /\ UNCHANGED <<socks, clientId, wire, tasks, emits>>

\* ---- handleRequest
\* one invocation: its locals client, sock, requests, responses, the loop index,
\* where it stands, and (bookkeeping) the connection its frame came in on, the JSON
\* kind of the frame, the element each response answers and the elements whose
\* handler was called
Task(client, conn, sock, kind, reqs, pc) ==
    [client |-> client, conn |-> conn, sock |-> sock, kind |-> kind, reqs |-> reqs, idx |-> 1,
     responses |-> <<>>, els |-> <<>>, invoked |-> {}, pc |-> pc]

\* what a frame, and the frames received so far, count against the budget of elements
Cost(n) == IF n = 0 THEN 1 ELSE n

RECURSIVE SumCost(_)
SumCost(ts) == IF ts = <<>> THEN 0 ELSE Cost(Len(ts[1].reqs)) + SumCost(Tail(ts))

\* (mutant) the parse error is sent but handleRequest does not return
handleRequestFallsThrough(c, raw) ==
    LET client == clientId[c]
        sock == socks[client]
        requests == parseRequest(raw)
        t == Len(tasks) + 1
    IN IF sock = 0
       THEN /\ tasks' = Append(tasks, Task(client, c, 0, raw.kind, <<>>, "nosock"))
            /\ UNCHANGED wire
       ELSE IF ~requests.ok
       THEN /\ wire' = send(sock, <<Response(Null, Undefined, ParseError)>>, t, <<>>, "parse")
            /\ tasks' = Append(tasks, Task(client, c, sock, raw.kind, <<>>, "loop"))
       ELSE /\ tasks' = Append(tasks, Task(client, c, sock, raw.kind, requests.reqs, "loop"))
            /\ UNCHANGED wire

\* a text frame arrives on connection c: handleRequest(clientId, raw) up to the loop
handleRequest(c, raw) ==
    LET client == clientId[c]
        sock == socks[client]
        requests == parseRequest(raw)
        t == Len(tasks) + 1
    IN IF sock = 0
       THEN /\ tasks' = Append(tasks, Task(client, c, 0, raw.kind, <<>>, "nosock"))
            /\ UNCHANGED wire
       ELSE IF ~requests.ok
       THEN /\ wire' = send(sock, <<Response(Null, Undefined, ParseError)>>, t, <<>>, "parse")
            /\ tasks' = Append(tasks, Task(client, c, sock, raw.kind, <<>>, "done"))
       ELSE /\ tasks' = Append(tasks, Task(client, c, sock, raw.kind, requests.reqs, "loop"))
            /\ UNCHANGED wire

TextFrame(c, raw, budget) ==
    /\ sockState[c] = "open"
    /\ SumCost(tasks) + Cost(FrameSize(raw)) <= budget
    /\ handleRequest(c, raw)
    /\ UNCHANGED <<socks, sockState, clientId, emits>>

Push(task, response) ==
    [task EXCEPT !.responses = Append(@, response), !.els = Append(@, task.idx),
                 !.idx = @ + 1]

Skip(task) == [task EXCEPT !.idx = @ + 1]

Emitter(t, el, sock, id) ==
    [task |-> t, el |-> el, sock |-> sock, id |-> id, calls |-> <<>>, threw |-> FALSE]

Invoke(task) == [task EXCEPT !.invoked = @ \cup {task.idx}]

\* (mutant) the error Response is pushed whether or not the request has an id
notFoundAlways(task, request, error) ==
    Push(task, Response(request.id, Undefined, error))

\* no handler: an error Response when the request has an id, nothing otherwise
notFound(task, request, error) ==
    IF request.id # Undefined
    THEN Push(task, Response(request.id, Undefined, error))
    ELSE Skip(task)

\* the asyncForEach callback on element idx, up to the handler's call
ForEachItem(t) ==
    LET task == tasks[t]
        request == task.reqs[task.idx]
    IN /\ task.pc = "loop"
       /\ task.idx <= Len(task.reqs)
       /\ IF request = Invalid
          THEN /\ tasks' = [tasks EXCEPT ![t] = Push(task, Response(Null, Undefined, InvalidRequest))]
               /\ UNCHANGED emits
          ELSE IF ~endsWith(request.method, ":")
          THEN /\ UNCHANGED emits
               /\ IF request.method \notin methods
                  THEN tasks' = [tasks EXCEPT ![t] = notFound(task, request, MethodNotFound)]
                  ELSE tasks' = [tasks EXCEPT ![t] = [Invoke(task) EXCEPT !.pc = "await"]]
          ELSE IF request.method \notin emitters
               THEN /\ UNCHANGED emits
                    /\ tasks' = [tasks EXCEPT ![t] = notFound(task, request, EmitterNotFound)]
               ELSE /\ emits' = Append(emits, Emitter(t, task.idx, task.sock, request.id))
                    /\ tasks' = [tasks EXCEPT ![t] = Skip(Invoke(task))]
       /\ UNCHANGED <<socks, sockState, clientId, wire>>

\* the awaited method handler resolves with result
HandlerReturns(t, result) ==
    LET task == tasks[t]
        request == task.reqs[task.idx]
    IN /\ task.pc = "await"
       /\ IF request.id # Undefined
          THEN tasks' = [tasks EXCEPT ![t] = [Push(task, Response(request.id, result, NoError)) EXCEPT !.pc = "loop"]]
          ELSE tasks' = [tasks EXCEPT ![t] = [Skip(task) EXCEPT !.pc = "loop"]]
       /\ UNCHANGED <<socks, sockState, clientId, wire, emits>>

\* the awaited method handler rejects: nothing catches it, handleRequest rejects
HandlerThrows(t) ==
    /\ tasks[t].pc = "await"
    /\ tasks' = [tasks EXCEPT ![t].pc = "threw"]
    /\ UNCHANGED <<socks, sockState, clientId, wire, emits>>

\* the loop is over: send(sock, responses)
SendResponses(t) ==
    LET task == tasks[t]
    IN /\ task.pc = "loop"
       /\ task.idx > Len(task.reqs)
       /\ wire' = send(task.sock, task.responses, t, task.els, "batch")
       /\ tasks' = [tasks EXCEPT ![t].pc = IF IsOpen(task.sock) THEN "done" ELSE "threw"]
       /\ UNCHANGED <<socks, sockState, clientId, emits>>

RECURSIVE SumCalls(_)
SumCalls(es) == IF es = <<>> THEN 0 ELSE Len(es[1].calls) + SumCalls(Tail(es))

\* the emitter handler of invocation k calls emit(data): send(sock, ...) with
\* nothing around it, so that sock.send on a closed socket, which throws, throws
\* out of emit into the handler
Emit(k, data, budget) ==
    LET e == emits[k]
    IN /\ SumCalls(emits) < budget
       /\ wire' = send(e.sock, <<Response(e.id, data, NoError)>>, e.task, <<e.el>>, "emit")
       /\ emits' = [emits EXCEPT ![k].calls = Append(@, data),
                                 ![k].threw = @ \/ ~IsOpen(e.sock)]
       /\ UNCHANGED <<socks, sockState, clientId, tasks>>

\* ------------------------------------------------------------ the server
InitServer ==
    /\ socks = [id \in ClientIds |-> 0]
    /\ sockState = [c \in Conns |-> "idle"]
    /\ clientId = [c \in Conns |-> Undefined]
    /\ wire = [c \in Conns |-> <<>>]
    /\ tasks = <<>>
    /\ emits = <<>>


\* ================================================================ client.ts
VARIABLES
    options,      \* ConnectOptions: [onGeneralError: is it set, retryCount]
    outgoing,     \* string[] | null: [open |-> FALSE] is null
    listeners,    \* Map<string, callback>: id -> "none", "call" or "listen"
    sockets,      \* readyState of every WebSocket tryToConnect has created
    notifier,     \* the socket newOutgoingMessageNotifier closes over, 0 at first
    retryCount,
    timers,       \* retry timers set and not yet fired
    connected,    \* has connect's `await tryToConnect()` resumed
    futures,      \* the promise of every call: "none", "pending", "closed", "error" or its result
    wsSent,       \* every ws.send, in order: [ws, msg]
    clientLog     \* what the application saw: submitted messages, operations,
                  \* listener and errorHandler calls, onGeneralError calls, uncaught throws;
                  \* and the frames received, each with the entries of the listeners table
                  \* that its Responses met

cvars == <<options, outgoing, listeners, sockets, notifier, retryCount, timers,
           connected, futures, wsSent, clientLog>>

\* v4.generate(): the n-th id generated
Uuids == <<"a", "b", "c", "d", "e">>
CallIds == {Uuids[i] : i \in DOMAIN Uuids}
v4 == Uuids[Cardinality({i \in DOMAIN clientLog.ops : clientLog.ops[i].op \in {"call", "listen"}}) + 1]

FailedToConnect == [code |-> 101, message |-> "Failed to connect"]
ServerError == [code |-> 500, message |-> "handler failed"]

Log(field, entry) == [clientLog EXCEPT ![field] = Append(@, entry)]

\* ---- tryToConnect
\* (mutant) the queue is not emptied after it is sent
sendAllMessagesKeepsQueue(ws, out, socks0, sent) ==
    IF ~out.open
    THEN [outgoing |-> out, sockets |-> [socks0 EXCEPT ![ws] = "CLOSED"], wsSent |-> sent]
    ELSE [outgoing |-> out,
          sockets |-> socks0,
          wsSent |-> sent \o [i \in 1..Len(out.msgs) |-> [ws |-> ws, msg |-> out.msgs[i]]]]

\* sendAllMessages of socket ws, given the queue and the sockets as they are then
sendAllMessages(ws, out, socks0, sent) ==
    IF ~out.open
    THEN [outgoing |-> out, sockets |-> [socks0 EXCEPT ![ws] = "CLOSED"], wsSent |-> sent]
    ELSE [outgoing |-> [out EXCEPT !.msgs = <<>>],
          sockets |-> socks0,
          wsSent |-> sent \o [i \in 1..Len(out.msgs) |-> [ws |-> ws, msg |-> out.msgs[i]]]]

\* newOutgoingMessageNotifier()
newOutgoingMessageNotifier(out, socks0, sent) ==
    IF notifier # 0 /\ socks0[notifier] = "OPEN"
    THEN sendAllMessages(notifier, out, socks0, sent)
    ELSE [outgoing |-> out, sockets |-> socks0, wsSent |-> sent]

\* ws.onopen
WsOpen(ws) ==
    /\ sockets[ws] = "CONNECTING"
    /\ LET r == sendAllMessages(ws, outgoing, [sockets EXCEPT ![ws] = "OPEN"], wsSent)
       IN /\ outgoing' = r.outgoing
          /\ sockets' = r.sockets
          /\ wsSent' = r.wsSent
    /\ connected' = (connected \/ ws = 1)
    /\ UNCHANGED <<options, listeners, notifier, retryCount, timers, futures, clientLog>>

Infinity == 1000000
Limit == IF options.retryCount = 0 THEN Infinity ELSE options.retryCount

\* ws.onerror (the socket is closed by then)
WsError(ws) ==
    /\ sockets[ws] \in {"CONNECTING", "OPEN"}
    /\ sockets' = [sockets EXCEPT ![ws] = "CLOSED"]
    /\ IF retryCount >= Limit /\ ~options.onGeneralError
       THEN /\ clientLog' = Log("faults", FailedToConnect)
            /\ UNCHANGED <<retryCount, timers>>
       ELSE /\ clientLog' = IF retryCount >= Limit THEN Log("general", FailedToConnect)
                            ELSE clientLog
            /\ retryCount' = retryCount + 1
            /\ timers' = timers + 1
    /\ UNCHANGED <<options, outgoing, listeners, notifier, connected, futures, wsSent>>

\* the peer closes the socket: no handler is registered for it
WsClose(ws) ==
    /\ sockets[ws] = "OPEN"
    /\ sockets' = [sockets EXCEPT ![ws] = "CLOSED"]
    /\ UNCHANGED <<options, outgoing, listeners, notifier, retryCount, timers,
                   connected, futures, wsSent, clientLog>>

\* (mutant) the timer reconnects without looking at the queue
RetryTimerIgnoresClose(maxWs) ==
    /\ timers > 0
    /\ Len(sockets) < maxWs
    /\ timers' = timers - 1
    /\ sockets' = Append(sockets, "CONNECTING")
    /\ notifier' = Len(sockets) + 1
    /\ UNCHANGED <<options, outgoing, listeners, retryCount, connected, futures,
                   wsSent, clientLog>>

\* the setTimeout callback of ws.onerror: tryToConnect() unless closed
RetryTimer(maxWs) ==
    /\ timers > 0
    /\ outgoing.open => Len(sockets) < maxWs
    /\ timers' = timers - 1
    /\ IF outgoing.open
       THEN /\ sockets' = Append(sockets, "CONNECTING")
            /\ notifier' = Len(sockets) + 1
       ELSE UNCHANGED <<sockets, notifier>>
    /\ UNCHANGED <<options, outgoing, listeners, retryCount, connected, futures,
                   wsSent, clientLog>>

\* ---- the connection's operations
Message(method, id) == Elem("object", "2.0", "string", method, id)

\* (mutant) no check that the queue is null
sendMessageUnchecked(method, id) ==
    LET r == newOutgoingMessageNotifier(
                 [outgoing EXCEPT !.msgs = Append(@, Message(method, id))], sockets, wsSent)
    IN [threw |-> FALSE, outgoing |-> r.outgoing, sockets |-> r.sockets, wsSent |-> r.wsSent]

\* sendMessage(method, params, id): did it throw, and the queue, sockets and sends after it
sendMessage(method, id) ==
    IF ~outgoing.open
    THEN [threw |-> TRUE, outgoing |-> outgoing, sockets |-> sockets, wsSent |-> wsSent]
    ELSE LET r == newOutgoingMessageNotifier(
                      [outgoing EXCEPT !.msgs = Append(@, Message(method, id))],
                      sockets, wsSent)
         IN [threw |-> FALSE, outgoing |-> r.outgoing, sockets |-> r.sockets,
             wsSent |-> r.wsSent]

\* (bookkeeping) the operation as the application saw it
Op(op, id, method, r) ==
    [clientLog EXCEPT
        !.ops = Append(@, [op |-> op, id |-> id, threw |-> r.threw, sent |-> Len(r.wsSent)]),
        !.submitted = IF r.threw \/ op = "close" THEN @ ELSE Append(@, Message(method, id))]

Ops == Len(clientLog.ops)

\* connection.call(method): the promise executor
call(method, maxOps) ==
    LET id == v4
        r == sendMessage(method, id)
    IN /\ connected
       /\ Ops < maxOps
       /\ listeners' = [listeners EXCEPT ![id] = "call"]
       /\ futures' = [futures EXCEPT ![id] = IF r.threw THEN "closed" ELSE "pending"]
       /\ outgoing' = r.outgoing
       /\ sockets' = r.sockets
       /\ wsSent' = r.wsSent
       /\ clientLog' = Op("call", id, method, r)
       /\ UNCHANGED <<options, notifier, retryCount, timers, connected>>

\* connection.notify(method)
notify(method, maxOps) ==
    LET r == sendMessage(method, Undefined)
    IN /\ connected
       /\ Ops < maxOps
       /\ outgoing' = r.outgoing
       /\ sockets' = r.sockets
       /\ wsSent' = r.wsSent
       /\ clientLog' = Op("notify", Undefined, method, r)
       /\ UNCHANGED <<options, listeners, notifier, retryCount, timers, connected, futures>>

\* connection.listen(method, {listener, errorHandler})
listen(method, maxOps) ==
    LET id == v4
        r == sendMessage(Append(method, ":"), id)
    IN /\ connected
       /\ Ops < maxOps
       /\ listeners' = [listeners EXCEPT ![id] = "listen"]
       /\ outgoing' = r.outgoing
       /\ sockets' = r.sockets
       /\ wsSent' = r.wsSent
       /\ clientLog' = Op("listen", id, Append(method, ":"), r)
       /\ UNCHANGED <<options, notifier, retryCount, timers, connected, futures>>

\* connection.close()
close(maxOps) ==
    LET r == newOutgoingMessageNotifier([open |-> FALSE, msgs |-> <<>>], sockets, wsSent)
    IN /\ connected
       /\ Ops < maxOps
       /\ outgoing' = r.outgoing
       /\ sockets' = r.sockets
       /\ wsSent' = r.wsSent
       /\ clientLog' = Op("close", Undefined, <<>>, [threw |-> FALSE, wsSent |-> r.wsSent])
       /\ UNCHANGED <<options, listeners, notifier, retryCount, timers, connected, futures>>

\* ---- ws.onmessage
\* parseResponse: [ok |-> FALSE] is null
parseResponse(json) ==
    IF json.kind \notin {"obj", "arr"} THEN [ok |-> FALSE, res |-> <<>>]
    ELSE LET obj == makeArray(json)
             keep == {i \in 1..Len(obj) :
                        obj[i].id # Undefined
                        /\ (obj[i].result # Undefined \/ obj[i].error # NoError)}
             RECURSIVE pick(_)
             pick(i) == IF i > Len(obj) THEN <<>>
                        ELSE IF i \in keep
                        THEN <<[id |-> obj[i].id, result |-> obj[i].result,
                                error |-> obj[i].error]>> \o pick(i + 1)
                        ELSE pick(i + 1)
         IN [ok |-> TRUE, res |-> pick(1)]

\* JavaScript truthiness, and `x ?? null`
Truthy(v) == v \notin {Undefined, Null, "0", "false", "\"\""}
OrNull(v) == IF v = Undefined THEN Null ELSE v

\* the state the callbacks of one message work on
ClientState == [listeners |-> listeners, futures |-> futures, log |-> clientLog, threw |-> FALSE]

\* the callback call(...) registered for id
\* (a promise settles once: reject and resolve do nothing unless it is pending)
callListener(cs, id, error, data) ==
    [cs EXCEPT !.listeners[id] = "none",
               !.futures[id] = IF @ # "pending" THEN @
                               ELSE IF error # NoError THEN "error"
                               ELSE IF data # Undefined THEN data ELSE @]

\* the callback listen(...) registered for id
listenListener(cs, id, error, data) ==
    LET afterError == IF error # NoError
                      THEN [cs EXCEPT !.log.errorHandler = Append(@, [id |-> id, error |-> error])]
                      ELSE cs
    IN IF Truthy(data)
       THEN [afterError EXCEPT !.log.listener = Append(@, [id |-> id, data |-> data])]
       ELSE afterError

\* the body of res.forEach for one Response
onResponse(cs, res) ==
    IF res.id = Null
    THEN IF res.error # NoError
         THEN IF options.onGeneralError
              THEN [cs EXCEPT !.log.general = Append(@, res.error)]
              ELSE [cs EXCEPT !.log.faults = Append(@, res.error), !.threw = TRUE]
         ELSE cs
    ELSE IF res.id \in CallIds /\ cs.listeners[res.id] = "call"
    THEN callListener(cs, res.id, res.error, OrNull(res.result))
    ELSE IF res.id \in CallIds /\ cs.listeners[res.id] = "listen"
    THEN listenListener(cs, res.id, res.error, OrNull(res.result))
    ELSE cs

\* res.forEach: a throw ends it
RECURSIVE forEachResponse(_, _)
forEachResponse(cs, res) ==
    IF res = <<>> \/ cs.threw THEN cs
    ELSE forEachResponse(onResponse(cs, Head(res)), Tail(res))

onmessage(ws, data, maxIn) ==
    LET res == parseResponse(data)
        cs == IF res.ok THEN forEachResponse(ClientState, res.res) ELSE ClientState
        \* (bookkeeping) the listeners table's entries for the ids of the frame
        pending == {<<res.res[j].id, listeners[res.res[j].id]>> :
                       j \in {i \in DOMAIN res.res : res.res[i].id \in CallIds}}
    IN /\ sockets[ws] = "OPEN"
       /\ clientLog.received < maxIn
       /\ listeners' = cs.listeners
       /\ futures' = cs.futures
       /\ clientLog' = [cs.log EXCEPT !.received = @ + 1,
                                      !.inbox = Append(@, [data |-> data, pending |-> pending])]
       /\ UNCHANGED <<options, outgoing, sockets, notifier, retryCount, timers,
                      connected, wsSent>>

\* the promise connect returns: `await tryToConnect()` waits for the promise of the
\* first attempt, whose executor takes resolve alone, so it is pending or resolved
ConnectFuture == IF connected THEN "resolved" ELSE "pending"

\* ---- connect(url, params, options): up to `await tryToConnect()`
InitClient(opts) ==
    /\ options = opts
    /\ outgoing = [open |-> TRUE, msgs |-> <<>>]
    /\ listeners = [id \in CallIds |-> "none"]
    /\ sockets = <<"CONNECTING">>
    /\ notifier = 1
    /\ retryCount = 0
    /\ timers = 0
    /\ connected = FALSE
    /\ futures = [id \in CallIds |-> "none"]
    /\ wsSent = <<>>
    /\ clientLog = [submitted |-> <<>>, ops |-> <<>>, listener |-> <<>>,
                    errorHandler |-> <<>>, general |-> <<>>, faults |-> <<>>,
                    received |-> 0, inbox |-> <<>>]


\* ======================================================= utils.ts, shared.ts
VARIABLES
    text,       \* a string, as its UTF-16 code units
    encoded,    \* paramsEncoder.encrypt(text), as its characters
    decoded,    \* paramsEncoder.decrypt(encoded), as its code units
    encPc       \* "text", then "encrypted", then "decrypted"

evars == <<text, encoded, decoded, encPc>>

\* a ^ b on non-negative integers
RECURSIVE xor(_, _)
xor(a, b) ==
    IF a = 0 THEN b
    ELSE IF b = 0 THEN a
    ELSE (((a % 2) + (b % 2)) % 2) + 2 * xor(a \div 2, b \div 2)

\* 'nothing-secret', the key of paramsEncoder
key == <<110, 111, 116, 104, 105, 110, 103, 45, 115, 101, 99, 114, 101, 116>>

\* text.split('').map(c => c.charCodeAt(0)): a string is modelled by its code units
textToChars(str) == str

RECURSIVE reduceXor(_, _)
reduceXor(codes, a) == IF codes = <<>> THEN a ELSE reduceXor(Tail(codes), xor(a, Head(codes)))

applyKeyToChar(code) == reduceXor(textToChars(key), code)

HexDigits == <<"0", "1", "2", "3", "4", "5", "6", "7", "8", "9", "a", "b", "c", "d", "e", "f">>

\* Number(n).toString(16)
RECURSIVE toString16(_)
toString16(n) ==
    IF n < 16 THEN <<HexDigits[n + 1]>>
    ELSE Append(toString16(n \div 16), HexDigits[(n % 16) + 1])

\* ('0' + Number(n).toString(16)).substr(-2)
byteHex(n) ==
    LET str == <<"0">> \o toString16(n)
    IN SubSeq(str, Len(str) - 1, Len(str))

RECURSIVE join(_)
join(strs) == IF strs = <<>> THEN <<>> ELSE Head(strs) \o join(Tail(strs))

encrypt(str) ==
    LET codes == textToChars(str)
    IN join([i \in 1..Len(codes) |-> byteHex(applyKeyToChar(codes[i]))])

\* encoded.match(/.{1,2}/g) || []
RECURSIVE match12(_)
match12(str) ==
    IF str = <<>> THEN <<>>
    ELSE IF Len(str) = 1 THEN <<str>>
    ELSE <<SubSeq(str, 1, 2)>> \o match12(SubSeq(str, 3, Len(str)))

HexValue(ch) == CHOOSE v \in 0..15 : HexDigits[v + 1] = ch

\* parseInt(hex, 16) of a string of hex digits
RECURSIVE parseInt16(_)
parseInt16(hex) ==
    IF hex = <<>> THEN 0
    ELSE 16 * parseInt16(SubSeq(hex, 1, Len(hex) - 1)) + HexValue(hex[Len(hex)])

\* String.fromCharCode keeps 16 bits
fromCharCode(code) == code % 65536

decrypt(str) ==
    LET chunks == match12(str)
    IN [i \in 1..Len(chunks) |-> fromCharCode(applyKeyToChar(parseInt16(chunks[i])))]

\* code units of JSON text: '"', 'a', '{', and beyond ASCII and Latin-1
Chars == {34, 97, 123, 233, 256, 8364}
MaxText == 2    \* code units of the text

InitEncoder(texts) ==
    /\ text \in texts
    /\ encoded = <<>>
    /\ decoded = <<>>
    /\ encPc = "text"

Encrypt ==
    /\ encPc = "text"
    /\ encoded' = encrypt(text)
    /\ encPc' = "encrypted"
    /\ UNCHANGED <<text, decoded>>

Decrypt ==
    /\ encPc = "encrypted"
    /\ decoded' = decrypt(encoded)
    /\ encPc' = "decrypted"
    /\ UNCHANGED <<text, encoded>>

\* ============================================ the client's socket to the server
VARIABLES
    upCur,      \* how many of the client's ws.send calls have reached the server
    downCur     \* how many of the server's sock.send calls have reached the client

lvars == <<upCur, downCur>>

InitLink == upCur = 0 /\ downCur = 0

\* the client's first WebSocket is connection 1 of the server: it opens once
\* acceptWebSocket has answered the upgrade
LinkOpen ==
    /\ sockState[1] # "idle"
    /\ WsOpen(1)
    /\ UNCHANGED <<svars, lvars>>

\* `for await (const ev of sock)`: the next text frame of the client is read
LinkUp ==
    /\ upCur < Len(wsSent)
    /\ wsSent[upCur + 1].ws = 1
    /\ TextFrame(1, Bare(wsSent[upCur + 1].msg), Len(wsSent))
    /\ upCur' = upCur + 1
    /\ UNCHANGED <<cvars, downCur>>

\* ws.onmessage: the next frame of the server arrives
LinkDown ==
    /\ downCur < Len(wire[1])
    /\ onmessage(1, wire[1][downCur + 1], Len(wire[1]))
    /\ downCur' = downCur + 1
    /\ UNCHANGED <<svars, upCur>>

\* =========================================================== specifications
vars == <<svars, cvars, evars, lvars>>

NoOptions == [onGeneralError |-> FALSE, retryCount |-> 0]

Server(A) == A /\ UNCHANGED <<cvars, evars, lvars>>
Client(A) == A /\ UNCHANGED <<svars, evars, lvars>>
Encoder(A) == A /\ UNCHANGED <<svars, cvars, lvars>>

\* the server, offered one connection; frames of MaxElems elements in all
Init == InitServer /\ InitClient(NoOptions) /\ InitEncoder({<<>>}) /\ InitLink

Next ==
    \/ \E c \in {1} : Server(Upgrade(c))
    \/ \E c \in {1}, r \in {Null, "error"} : Server(ClientAdded(c, r))
    \/ \E c \in {1} : Server(CloseEvent(c))
    \/ \E c \in {1} : Server(TransportLost(c))
    \/ \E c \in {1}, raw \in FramesOf(MaxElems) : Server(TextFrame(c, raw, MaxElems))
    \/ \E t \in DOMAIN tasks : Server(ForEachItem(t))
    \/ \E t \in DOMAIN tasks, result \in Values : Server(HandlerReturns(t, result))
    \/ \E t \in DOMAIN tasks : Server(HandlerThrows(t))
    \/ \E t \in DOMAIN tasks : Server(SendResponses(t))
    \/ \E k \in DOMAIN emits, data \in Values : Server(Emit(k, data, MaxCalls))

Spec == Init /\ [][Next]_vars

\* the same with batches: frames of MaxBatch elements in all, and the identity
\* hook may also return an id of its own
NextBatch ==
    \/ \E c \in {1} : Server(Upgrade(c))
    \/ \E c \in {1}, r \in HookIds \cup {Null, "error"} : Server(ClientAdded(c, r))
    \/ \E c \in {1} : Server(CloseEvent(c))
    \/ \E c \in {1} : Server(TransportLost(c))
    \/ \E c \in {1}, raw \in FramesOf(MaxBatch) : Server(TextFrame(c, raw, MaxBatch))
    \/ \E t \in DOMAIN tasks : Server(ForEachItem(t))
    \/ \E t \in DOMAIN tasks, result \in Values : Server(HandlerReturns(t, result))
    \/ \E t \in DOMAIN tasks : Server(HandlerThrows(t))
    \/ \E t \in DOMAIN tasks : Server(SendResponses(t))
    \/ \E k \in DOMAIN emits, data \in Values : Server(Emit(k, data, MaxCalls))

SpecBatch == Init /\ [][NextBatch]_vars

\* the handshake encoder on every text of at most MaxText code units
InitEnc == InitServer /\ InitClient(NoOptions) /\ InitEncoder(SeqsUpTo(Chars, MaxText)) /\ InitLink
NextEnc == Encoder(Encrypt) \/ Encoder(Decrypt)
SpecEnc == InitEnc /\ [][NextEnc]_vars


\* the server with two connections at once; the identity hook returns an id of
\* its own (the same for any connection) or null
ConnFrames ==
    {Garbage,
     Bare(Elem("object", "2.0", "string", <<"m">>, "a")),
     Bare(Elem("object", "2.0", "string", <<"e", ":">>, "a"))}

NextConns ==
    \/ \E c \in Conns : Server(Upgrade(c))
    \/ \E c \in Conns, r \in HookIds \cup {Null} : Server(ClientAdded(c, r))
    \/ \E c \in Conns : Server(CloseEvent(c))
    \/ \E c \in Conns : Server(TransportLost(c))
    \/ \E c \in Conns, raw \in ConnFrames : Server(TextFrame(c, raw, MaxFrames))
    \/ \E t \in DOMAIN tasks : Server(ForEachItem(t))
    \/ \E t \in DOMAIN tasks, result \in {"1"} : Server(HandlerReturns(t, result))
    \/ \E t \in DOMAIN tasks : Server(SendResponses(t))
    \/ \E k \in DOMAIN emits, data \in {"1"} : Server(Emit(k, data, MaxCalls))

SpecConns == Init /\ [][NextConns]_vars

\* the same, with an identity hook that never returns the id of a connection
\* that is open: the ids of simultaneously open connections are distinct
\* (connections are numbered in the order in which they are accepted)
IdInUse(id) == \E d \in Conns : sockState[d] = "open" /\ clientId[d] = id

NextDistinct ==
    \/ \E c \in Conns : (\A d \in Conns : d < c => sockState[d] # "idle") /\ Server(Upgrade(c))
    \/ \E c \in Conns, r \in HookIds \cup {Null} :
          ~IdInUse(IF r = Null THEN Uuid(c) ELSE r) /\ Server(ClientAdded(c, r))
    \/ \E c \in Conns : Server(CloseEvent(c))
    \/ \E c \in Conns : Server(TransportLost(c))
    \/ \E c \in Conns, raw \in ConnFrames : Server(TextFrame(c, raw, MaxFrames))
    \/ \E t \in DOMAIN tasks : Server(ForEachItem(t))
    \/ \E t \in DOMAIN tasks, result \in {"1"} : Server(HandlerReturns(t, result))
    \/ \E t \in DOMAIN tasks : Server(SendResponses(t))
    \/ \E k \in DOMAIN emits, data \in {"1"} : Server(Emit(k, data, MaxCalls))

SpecDistinct == Init /\ [][NextDistinct]_vars

\* the client against any server: every option, any transport event (what the
\* Responses it receives do to calls and subscriptions is SpecInbox's part)
ClientOptions == [onGeneralError : BOOLEAN, retryCount : {0, 1}]
ServerFrames ==
    {Garbage,
     Bare([id |-> "a", result |-> "1", error |-> NoError, jsonrpc |-> "2.0"]),
     Bare([id |-> Null, result |-> Undefined, error |-> ServerError, jsonrpc |-> "2.0"])}

InitC ==
    InitServer /\ (\E opts \in ClientOptions : InitClient(opts)) /\ InitEncoder({<<>>}) /\ InitLink

NextClient ==
    \/ \E ws \in DOMAIN sockets : Client(WsOpen(ws))
    \/ \E ws \in DOMAIN sockets : Client(WsError(ws))
    \/ \E ws \in DOMAIN sockets : Client(WsClose(ws))
    \/ Client(RetryTimer(MaxWs))
    \/ Client(call(<<"m">>, MaxOps))
    \/ Client(notify(<<"m">>, MaxOps))
    \/ Client(listen(<<"e">>, MaxOps))
    \/ Client(close(MaxOps))
    \/ \E ws \in DOMAIN sockets, data \in ServerFrames : Client(onmessage(ws, data, MaxIn))

SpecClient == InitC /\ [][NextClient]_vars

\* the client, connected, receiving: calls and subscriptions against frames that
\* carry one or two Responses for their ids, for no id, or for an unknown id
InboxIds == {"a", "b"}
InboxValues == {"1", "0", Null}
InboxItems ==
    {[id |-> i, result |-> v, error |-> NoError, jsonrpc |-> "2.0"] : i \in InboxIds, v \in InboxValues}
    \cup {[id |-> i, result |-> Undefined, error |-> ServerError, jsonrpc |-> "2.0"] :
            i \in InboxIds \cup {Null}}
    \cup {[id |-> "z", result |-> "1", error |-> NoError, jsonrpc |-> "2.0"],
          [id |-> "a", result |-> Undefined, error |-> NoError, jsonrpc |-> "2.0"]}
InboxFrames ==
    {Garbage} \cup {Bare(r) : r \in InboxItems}
              \cup {Batch(<<r1, r2>>) : r1 \in InboxItems, r2 \in InboxItems}

InitInbox ==
    /\ InitServer /\ InitEncoder({<<>>}) /\ InitLink
    /\ \E g \in BOOLEAN : InitClient([onGeneralError |-> g, retryCount |-> 0])

NextInbox ==
    \/ Client(WsOpen(1))
    \/ Client(call(<<"m">>, MaxSubs))
    \/ Client(listen(<<"e">>, MaxSubs))
    \/ \E data \in InboxFrames : Client(onmessage(1, data, MaxMsgs))

SpecInbox == InitInbox /\ [][NextInbox]_vars

\* one client connected to the server: what the client sends is what the server
\* receives on connection 1, and what the server sends there is what the client receives
NextLink ==
    \/ Server(Upgrade(1))
    \/ Server(ClientAdded(1, Null))
    \/ LinkOpen /\ UNCHANGED evars
    \/ Client(call(<<"m">>, MaxOps))
    \/ Client(listen(<<"e">>, MaxOps))
    \/ LinkUp /\ UNCHANGED evars
    \/ \E t \in DOMAIN tasks : Server(ForEachItem(t))
    \/ \E t \in DOMAIN tasks, result \in Values : Server(HandlerReturns(t, result))
    \/ \E t \in DOMAIN tasks : Server(HandlerThrows(t))
    \/ \E t \in DOMAIN tasks : Server(SendResponses(t))
    \/ \E k \in DOMAIN emits, data \in Values : Server(Emit(k, data, MaxEmit))
    \/ LinkDown /\ UNCHANGED evars

SpecLink == Init /\ [][NextLink]_vars

\* ================================================================ properties
\* the positions <<k, j>>: item j of the k-th send on the socket of invocation t
\* was sent by t (via "batch", "emit" or "parse") 
ItemsOf(t, vias) ==
    LET sock == tasks[t].sock
    IN IF sock = 0 THEN {}
       ELSE {kj \in (DOMAIN wire[sock]) \X (1..MaxBatch + 2) :
               /\ wire[sock][kj[1]].task = t
               /\ wire[sock][kj[1]].via \in vias
               /\ kj[2] \in DOMAIN wire[sock][kj[1]].items}

Item(t, kj) == wire[tasks[t].sock][kj[1]].items[kj[2]]

\* the sends of invocation t, in order
SendsOf(t, vias) ==
    IF tasks[t].sock = 0 THEN <<>>
    ELSE SelectSeq(wire[tasks[t].sock], LAMBDA e : e.task = t /\ e.via \in vias)

\* handleRequest has returned or thrown
Settled(t) == tasks[t].pc \in {"done", "threw", "nosock"}

\* the frame was received on a connection that is still open
Live(t) == tasks[t].sock # 0 /\ IsOpen(tasks[t].sock)

IsRequest(el) == el # Invalid
IsMethodCall(el) == IsRequest(el) /\ ~endsWith(el.method, ":")
IsEmitterCall(el) == IsRequest(el) /\ endsWith(el.method, ":")

\* C1: a single method request with an id, on a connection that stays open, gets
\* exactly one Response with its id: never more than one, and one once
\* handleRequest is over, whether the handler is missing, returns or throws.
C1_ExactlyOneResponse ==
    \A t \in DOMAIN tasks :
        LET task == tasks[t]
            answers == {kj \in ItemsOf(t, {"batch", "emit", "parse"}) :
                          Item(t, kj).id = task.reqs[1].id}
        IN (/\ Live(t)
            /\ Len(task.reqs) = 1
            /\ IsMethodCall(task.reqs[1])
            /\ task.reqs[1].id # Undefined)
           => /\ Cardinality(answers) <= 1
              /\ Settled(t) => Cardinality(answers) = 1

\* C2: nothing the server sends answers a request that has no id, and no
\* Response goes out without an id.
C2_NoResponseToNotification ==
    \A t \in DOMAIN tasks :
        \A kj \in ItemsOf(t, {"batch", "emit", "parse"}) :
            LET sent == wire[tasks[t].sock][kj[1]]
            IN /\ Item(t, kj).id # Undefined
               /\ kj[2] \in DOMAIN sent.els =>
                    LET el == tasks[t].reqs[sent.els[kj[2]]]
                    IN IsRequest(el) => el.id # Undefined

\* an element that is owed an entry in the batch response: an invalid element, a
\* method request with an id, a request with an id for an emitter that is not there
Warrants(el) ==
    \/ el = Invalid
    \/ IsMethodCall(el) /\ el.id # Undefined
    \/ IsEmitterCall(el) /\ el.id # Undefined /\ el.method \notin emitters

RECURSIVE WarrantedFrom(_, _)
WarrantedFrom(reqs, i) ==
    IF i > Len(reqs) THEN <<>>
    ELSE IF Warrants(reqs[i]) THEN <<i>> \o WarrantedFrom(reqs, i + 1)
    ELSE WarrantedFrom(reqs, i + 1)

AnswerId(el) == IF el = Invalid THEN Null ELSE el.id

\* C3: once handleRequest is over for a frame that is a batch of N >= 2 elements,
\* on a connection still open, it has made exactly one batch send, holding one Response for each element
\* that warrants one and no other, in the order of the elements.
C3_OneOrderedBatch ==
    \A t \in DOMAIN tasks :
        LET task == tasks[t]
            batches == SendsOf(t, {"batch"})
        IN (Live(t) /\ Settled(t) /\ task.kind = "arr" /\ Len(task.reqs) >= 2)
           => /\ Len(batches) = 1
              /\ batches[1].els = WarrantedFrom(task.reqs, 1)
              /\ \A j \in DOMAIN batches[1].items :
                    batches[1].items[j].id = AnswerId(task.reqs[batches[1].els[j]])

\* C4: when a method handler has thrown for an element of a frame, on a connection
\* still open, the batch response is sent all the same: it holds an error Response
\* for that element if it has an id, and the Response of every other element that
\* warrants one.
C4_FailureContained ==
    \A t \in DOMAIN tasks :
        LET task == tasks[t]
            failed == task.idx
            batch == ItemsOf(t, {"batch"})
            answer(kj) == wire[task.sock][kj[1]].els[kj[2]]
        IN (Live(t) /\ task.pc = "threw")
           => \A i \in DOMAIN task.reqs :
                 Warrants(task.reqs[i]) =>
                    \E kj \in batch :
                       /\ answer(kj) = i
                       /\ Item(t, kj).id = AnswerId(task.reqs[i])
                       /\ i = failed => Item(t, kj).error # NoError

\* the Response owed to a request for a name that is not registered
NotFoundResponse(el) ==
    Response(el.id, Undefined, IF endsWith(el.method, ":") THEN EmitterNotFound ELSE MethodNotFound)

Unregistered(el) ==
    /\ IsRequest(el)
    /\ IF endsWith(el.method, ":") THEN el.method \notin emitters ELSE el.method \notin methods

ParseErrorFrame(t) ==
    Sent("obj", <<[id |-> Null, result |-> Undefined, error |-> ParseError, jsonrpc |-> "2.0"]>>,
         t, <<>>, "parse")

\* C9: a frame that is not JSON makes handleRequest send, in the same step, the one
\* bare Response {id: null, error: {code: -32700, message: 'Parse error'}} on its
\* connection and return; no handler is called, the connection's state is left as
\* it was, and nothing is sent for that frame afterwards.
C9_ParseError ==
    [][/\ \A t \in DOMAIN tasks' :
            (t \notin DOMAIN tasks /\ tasks'[t].kind = "garbage")
            => /\ tasks'[t].pc = "done"
               /\ tasks'[t].invoked = {}
               /\ wire' = [wire EXCEPT ![tasks'[t].conn] = Append(@, ParseErrorFrame(t))]
               /\ sockState' = sockState
               /\ socks' = socks
               /\ emits' = emits
       /\ \A t \in DOMAIN tasks :
            tasks[t].kind = "garbage"
            => /\ tasks'[t] = tasks[t]
               /\ \A c \in Conns : \A k \in DOMAIN wire'[c] :
                     (wire'[c][k].task = t) => (k \in DOMAIN wire[c])
               /\ \A k \in DOMAIN emits' : emits'[k].task # t
      ]_vars

C9_Witness ==
    \E t \in DOMAIN tasks :
        /\ tasks[t].kind = "garbage"
        /\ sockState[tasks[t].conn] = "open"
        /\ wire[tasks[t].conn] = <<ParseErrorFrame(t)>>


\* the messages written to the sockets, in order
SentMessages == [i \in DOMAIN wsSent |-> wsSent[i].msg]

IsPrefix(s, t) == Len(s) <= Len(t) /\ s = SubSeq(t, 1, Len(s))

\* C6: as long as close has not been called, the messages written to the sockets
\* followed by the messages in the queue are exactly the messages submitted, in the
\* order of submission (none dropped, none twice, none out of order); the queue is
\* empty whenever a socket is open (what was buffered went out when it opened);
\* and the sockets are written in the order in which they were created.
C6_BufferedInOrder ==
    /\ outgoing.open => SentMessages \o outgoing.msgs = clientLog.submitted
    /\ IsPrefix(SentMessages, clientLog.submitted)
    /\ \A ws \in DOMAIN sockets : (sockets[ws] = "OPEN" /\ outgoing.open) => outgoing.msgs = <<>>
    /\ \A i, j \in DOMAIN wsSent : i <= j => wsSent[i].ws <= wsSent[j].ws

\* two different messages were submitted while the first socket was gone, stayed in
\* the queue, and went out on the second socket, in order
C6_Witness ==
    /\ Len(sockets) = 2 /\ sockets[2] = "OPEN"
    /\ Len(clientLog.ops) >= 2
    /\ clientLog.ops[1].sent = 0 /\ clientLog.ops[2].sent = 0
    /\ Len(wsSent) = 2
    /\ wsSent[1].ws = 2 /\ wsSent[2].ws = 2
    /\ wsSent[1].msg # wsSent[2].msg
    /\ SentMessages = clientLog.submitted

\* C7: after close(), every call and notify throws: the queue stays null, nothing
\* is written to any socket from the close on, and the promise of the call is
\* rejected with the 'manually closed' error.
C7_ClosedFailsFast ==
    \A i \in DOMAIN clientLog.ops :
        clientLog.ops[i].op = "close"
        => /\ outgoing = [open |-> FALSE, msgs |-> <<>>]
           /\ Len(wsSent) = clientLog.ops[i].sent
           /\ \A j \in DOMAIN clientLog.ops :
                 (j > i /\ clientLog.ops[j].op \in {"call", "notify"})
                 => /\ clientLog.ops[j].threw
                    /\ clientLog.ops[j].sent = clientLog.ops[i].sent
                    /\ clientLog.ops[j].op = "call" => futures[clientLog.ops[j].id] = "closed"

C7_Witness ==
    /\ Len(clientLog.ops) = 3
    /\ clientLog.ops[1].op = "close"
    /\ clientLog.ops[2].op = "call" /\ clientLog.ops[2].threw
    /\ clientLog.ops[3].op = "notify" /\ clientLog.ops[3].threw
    /\ futures[clientLog.ops[2].id] = "closed"

IsHex(ch) == \E v \in 1..16 : HexDigits[v] = ch

\* C10: decrypt(encrypt(s)) = s, and encrypt(s) is two hex digits for each
\* character of s, for every string s, code units above 255 included.
C10_RoundTrip ==
    /\ encPc # "text" => /\ Len(encoded) = 2 * Len(text)
                         /\ \A i \in DOMAIN encoded : IsHex(encoded[i])
    /\ encPc = "decrypted" => decoded = text


\* the emit sends of emitter invocation k, in order
EmitSends(k) ==
    SelectSeq(wire[emits[k].sock],
              LAMBDA e : e.via = "emit" /\ e.task = emits[k].task /\ e.els = <<emits[k].el>>)

\* the values the listener of subscription id was called with, in order
ListenerCalls(id) ==
    LET calls == SelectSeq(clientLog.listener, LAMBDA c : c.id = id)
    IN [j \in DOMAIN calls |-> calls[j].data]

\* C5: for an emitter request with id i on an open connection whose handler has
\* called emit(v1), ..., emit(vk): the server has sent k separate bare Responses
\* {id: i, result: vj}, in that order; and once they have all reached the client
\* that subscribed with listen, its listener has been called with v1, ..., vk, in
\* that order.
C5_EmitsInOrder ==
    \A k \in DOMAIN emits :
        LET e == emits[k]
        IN (e.id # Undefined /\ IsOpen(e.sock))
           => /\ EmitSends(k) =
                    [j \in DOMAIN e.calls |->
                        Sent("obj", <<[id |-> e.id, result |-> e.calls[j], error |-> NoError,
                                       jsonrpc |-> "2.0"]>>, e.task, <<e.el>>, "emit")]
              /\ (e.sock = 1 /\ downCur = Len(wire[1]) /\ e.id \in CallIds
                  /\ listeners[e.id] = "listen")
                 => ListenerCalls(e.id) = e.calls

\* ---------------------------------------------------------------- connecting
\* C11: as soon as any connection attempt, the first or a retry, has reported the
\* transport open, the future connect returned is resolved.
C11_ConnectResolves ==
    \A ws \in DOMAIN sockets : sockets[ws] = "OPEN" => ConnectFuture = "resolved"

\* transport errors so far: each one either counted a retry or threw
TransportErrors ==
    retryCount + Cardinality({i \in DOMAIN clientLog.faults : clientLog.faults[i] = FailedToConnect})

\* with retryCount n configured, a transport error has come after n retries
Exhausted == options.retryCount > 0 /\ TransportErrors > options.retryCount

\* C12: with a finite retryCount n, never more than n retries are started; and
\* once an error has come with the retries used up, no retry is scheduled,
\* onGeneralError was called if it is configured, and otherwise the future of
\* connect is not left pending.
C12_RetriesExhausted ==
    options.retryCount > 0 =>
        /\ Len(sockets) <= 1 + options.retryCount
        /\ Exhausted =>
              /\ timers = 0
              /\ options.onGeneralError =>
                    \E i \in DOMAIN clientLog.general : clientLog.general[i] = FailedToConnect
              /\ ~options.onGeneralError => ConnectFuture # "pending"

\* the application has called close()
Closed == ~outgoing.open
CloseCalled == \E i \in DOMAIN clientLog.ops : clientLog.ops[i].op = "close"

\* C13: the engine is closed only by the application's close(); once it is
\* closed it stays closed, no step creates a WebSocket (a retry timer that fires
\* does nothing), no step sends anything, and no transport is left open.
C13_ClosedIsTerminal ==
    [][/\ Closed' => CloseCalled' /\ \A ws \in DOMAIN sockets' : sockets'[ws] # "OPEN"
       /\ Closed => /\ Closed'
                    /\ Len(sockets') = Len(sockets)
                    /\ wsSent' = wsSent]_vars

\* closed, and a retry timer has fired since without starting an attempt
C13_Witness ==
    /\ Closed
    /\ retryCount > 0
    /\ timers = 0
    /\ Len(sockets) < 1 + retryCount
    /\ \A ws \in DOMAIN sockets : sockets[ws] = "CLOSED"

\* ------------------------------------------------------------------ receiving
\* the Responses of a received frame, in order
ResponsesOf(data) == LET r == parseResponse(data) IN IF r.ok THEN r.res ELSE <<>>

\* every Response received so far, in order of arrival, with the frame it came
\* in and the entries of the listeners table that frame met
RECURSIVE ArrivalsFrom(_)
ArrivalsFrom(k) ==
    IF k > Len(clientLog.inbox) THEN <<>>
    ELSE LET rs == ResponsesOf(clientLog.inbox[k].data)
         IN [j \in 1..Len(rs) |->
                [res |-> rs[j], frame |-> k, pending |-> clientLog.inbox[k].pending]]
            \o ArrivalsFrom(k + 1)

Arrivals == ArrivalsFrom(1)

\* the Responses that arrived for id while it was registered as a call or a subscription
ArrivalsFor(id, kind) ==
    SelectSeq(Arrivals, LAMBDA a : a.res.id = id /\ <<id, kind>> \in a.pending)

IsError(a) == a.res.error # NoError

ErrorHandlerCalls(id) ==
    LET calls == SelectSeq(clientLog.errorHandler, LAMBDA c : c.id = id)
    IN [j \in DOMAIN calls |-> calls[j].error]

Made(op, id) ==
    \E i \in DOMAIN clientLog.ops :
        clientLog.ops[i].op = op /\ clientLog.ops[i].id = id /\ ~clientLog.ops[i].threw

\* C14: for every subscription made with listen, options.listener has been
\* called with the result of every success Response that arrived for its id, in
\* order and whatever the value, options.errorHandler with the error of every
\* error Response, and the subscription is still in the listeners table.
C14_ListenPersistent ==
    \A id \in CallIds :
        Made("listen", id) =>
            LET A == ArrivalsFor(id, "listen")
                ok == SelectSeq(A, LAMBDA a : ~IsError(a))
                bad == SelectSeq(A, IsError)
            IN /\ ListenerCalls(id) = [j \in DOMAIN ok |-> ok[j].res.result]
               /\ ErrorHandlerCalls(id) = [j \in DOMAIN bad |-> bad[j].res.error]
               /\ listeners[id] = "listen"

\* C15: the future of a call is pending, with its entry in the listeners table,
\* until a Response arrives for its id; from then on it is settled by the first
\* of them, failed for an error and resolved with the result otherwise, and its
\* entry is gone.
C15_CallSettlesOnce ==
    \A id \in CallIds :
        Made("call", id) =>
            LET A == ArrivalsFor(id, "call")
            IN IF A = <<>>
               THEN futures[id] = "pending" /\ listeners[id] = "call"
               ELSE /\ futures[id] = IF IsError(A[1]) THEN "error" ELSE A[1].res.result
                    /\ listeners[id] = "none"

\* the untargeted errors received so far
Untargeted == SelectSeq(Arrivals, LAMBDA a : a.res.id = Null /\ IsError(a))

\* C16: every Response with id null and an error that has arrived was passed to
\* onGeneralError when it is configured and thrown when it is not; and in every
\* frame that carried one, the other Responses were delivered: a pending call is
\* settled, a subscription's errorHandler or listener was called.
C16_UntargetedErrors ==
    LET errors == [j \in DOMAIN Untargeted |-> Untargeted[j].res.error]
        fromServer(log) == SelectSeq(log, LAMBDA e : e # FailedToConnect)
        frames == {Untargeted[j].frame : j \in DOMAIN Untargeted}
    IN /\ IF options.onGeneralError
          THEN fromServer(clientLog.general) = errors
          ELSE fromServer(clientLog.faults) = errors
       /\ \A k \in DOMAIN Arrivals :
             LET a == Arrivals[k]
                 id == a.res.id
             IN (a.frame \in frames /\ id \in CallIds) =>
                   /\ <<id, "call">> \in a.pending => futures[id] # "pending"
                   /\ (<<id, "listen">> \in a.pending /\ IsError(a)) =>
                         \E c \in DOMAIN clientLog.errorHandler : clientLog.errorHandler[c].id = id
                   /\ (<<id, "listen">> \in a.pending /\ ~IsError(a) /\ Truthy(a.res.result)) =>
                         \E c \in DOMAIN clientLog.listener : clientLog.listener[c].id = id

\* ------------------------------------------------------------- the identity hook
\* the one frame a rejected connection is sent
HookErrorFrame ==
    Sent("obj", <<[Response(Null, Undefined, HookError) EXCEPT !.jsonrpc = "2.0"]>>, 0, <<>>, "hook")

\* the connection was closed before it was given an id: the hook rejected it
HookRejected(c) == sockState[c] = "closed" /\ clientId[c] = Undefined

\* C17: the step in which the identity hook's error descriptor is handled sends
\* the one Response {id: null, error: descriptor} on the connection, closes it and
\* touches neither the connection table nor any handler; and of a connection so
\* rejected nothing else was ever sent, no entry of the table points to it and no
\* frame from it was ever handled.
C17_HookRejects ==
    [][\A c \in Conns :
          /\ (sockState[c] = "hook" /\ sockState'[c] = "closed") =>
                /\ wire' = [wire EXCEPT ![c] = Append(@, HookErrorFrame)]
                /\ UNCHANGED <<socks, clientId, tasks, emits>>
          /\ (sockState'[c] = "closed" /\ clientId'[c] = Undefined) =>
                /\ wire'[c] = <<HookErrorFrame>>
                /\ \A id \in ClientIds : socks'[id] # c
                /\ \A t \in DOMAIN tasks' : tasks'[t].conn # c]_vars

\* a connection was rejected and has been sent its error
C17_Witness == \E c \in Conns : HookRejected(c) /\ wire[c] = <<HookErrorFrame>>

\* ------------------------------------------------------------ emit after close
\* C18: no call of emit has thrown, whatever the state of the connection it
\* belongs to; its Responses are on that connection alone, and no more of them
\* than emit was called.
C18_EmitAfterClose ==
    \A k \in DOMAIN emits :
        LET e == emits[k]
        IN /\ ~e.threw
           /\ Len(EmitSends(k)) <= Len(e.calls)
           /\ \A c \in Conns \ {e.sock} :
                 \A j \in DOMAIN wire[c] :
                    ~(wire[c][j].via = "emit" /\ wire[c][j].task = e.task)

\* ------------------------------------------------------- the connection table
\* the records of the table that point to connection c
RecordsOf(c) == {id \in ClientIds : socks[id] = c}

\* the connection has been given its id and has not ended
Registered(c) == sockState[c] = "open"

\* C19: every record of the connection table is the record of a connection that
\* is open, and every open connection has exactly one record.
C19_OneRecordPerOpenConnection ==
    /\ \A id \in ClientIds : socks[id] # 0 => Registered(socks[id])
    /\ \A c \in Conns : Registered(c) => Cardinality(RecordsOf(c)) = 1

\* C20: two connections that are open at the same time never have the same
\* client id, and the record of an open connection's id is its own: no other
\* connection's registration has overwritten it, no other connection's close has
\* removed it.
C20_IdentityNotShared ==
    \A c \in Conns :
        Registered(c) =>
            /\ socks[clientId[c]] = c
            /\ \A d \in Conns \ {c} : Registered(d) => clientId[d] # clientId[c]

\* ------------------------------------------------------------ routing
\* C21: with the ids of simultaneously open connections distinct, handleRequest
\* finds the socket of the connection its frame came in on, and every frame the
\* server has written for it (the parse-error reply, the batch reply, each emit)
\* is on that connection's transport and on no other.
C21_OwnTransport ==
    /\ \A t \in DOMAIN tasks : tasks[t].sock = tasks[t].conn
    /\ \A k \in DOMAIN emits : emits[k].sock = tasks[emits[k].task].conn
    /\ \A c \in Conns :
          \A j \in DOMAIN wire[c] :
             wire[c][j].via \in {"parse", "batch", "emit"} => tasks[wire[c][j].task].conn = c

\* two connections open at once, each has sent a frame: the first is answered
\* by an emit of the emitter its frame started, the second by a batch reply
C21_Witness ==
    /\ \A c \in Conns : sockState[c] = "open"
    /\ \E t, u \in DOMAIN tasks :
          /\ tasks[t].conn = 1 /\ tasks[u].conn = 2
          /\ \E j \in DOMAIN wire[1] : wire[1][j].task = t /\ wire[1][j].via = "emit"
          /\ \E j \in DOMAIN wire[2] : wire[2][j].task = u /\ wire[2][j].via = "batch"
                                          /\ wire[2][j].items # <<>>

====
